---- MODULE Spec2Model ----
(***************************************************************************)
(* Model of the comment-harvesting and analysis pipeline of src/app.py:    *)
(* fetch_comments (pagination, hard cap, percentage sampling),             *)
(* gpt_sentiment_analysis (structured decode, line fallback),              *)
(* gpt_comment_summary and the ranking of the top comments and their       *)
(* replies done by the main analysis flow.                                 *)
(***************************************************************************)
EXTENDS Integers, Sequences, FiniteSets, TLC

VARIABLES
    YT_API_KEY,            \* app.py:17   TRUE when the key is configured
    client,                \* app.py:20-24 TRUE when the OpenAI client exists
    video_url,             \* app.py:371  the URL typed by the user
    pct_str,               \* app.py:384  percentage string, a sequence of characters
    pc,                    \* position of the main analysis flow
    comments_data,         \* app.py:181  local list of fetch_comments
    next_page_token,       \* app.py:182  0 stands for None
    n_requests,            \* number of page requests issued so far
    last_request_token,    \* pageToken carried by the latest request (-1: no request yet)
    last_response_token,   \* nextPageToken of the latest response (-1: no response yet)
    fetched_all,           \* history: comments_data as collected, before any shuffle
    shuffled,              \* history: random.shuffle was called
    fetch_failed,          \* history: the except branch of fetch_comments ran
    fetched_comments_data, \* app.py:447  value returned by fetch_comments
    sentiment_input,       \* history: argument of the gpt_sentiment_analysis call
    api_response,          \* history: what the chat completion call produced
    sentiment_gpt_result,  \* app.py:462
    summary_from_gpt,      \* app.py:491
    top_10_comments,       \* app.py:500
    sorted_replies_list    \* app.py:514  one list per displayed top comment

vars == <<YT_API_KEY, client, video_url, pct_str, pc, comments_data,
          next_page_token, n_requests, last_request_token, last_response_token,
          fetched_all, shuffled, fetch_failed, fetched_comments_data,
          sentiment_input, api_response, sentiment_gpt_result,
          summary_from_gpt, top_10_comments, sorted_replies_list>>

-----------------------------------------------------------------------------
(* Dynamically typed values: a Python/JSON value is a tagged record.       *)

IntV(n) == [tag |-> "int", v |-> n, s |-> ""]
StrV(x) == [tag |-> "str", v |-> 0, s |-> x]
None == [tag |-> "none", v |-> 0, s |-> ""]
Absent == [tag |-> "absent", v |-> 0, s |-> ""]
\* a variable the flow has not assigned yet
NotYet == [tag |-> "not_called", v |-> 0, s |-> ""]

\* isinstance(x, int)
IsInt(x) == x.tag = "int"

Min(a, b) == IF a <= b THEN a ELSE b
Max(a, b) == IF a >= b THEN a ELSE b

\* int(x) of the quotient a / b, b > 0: truncation toward zero
Trunc(a, b) == IF a >= 0 THEN a \div b ELSE -((-a) \div b)

\* s[:n] of Python, n possibly negative
SliceTo(s, n) ==
    IF n >= 0 THEN SubSeq(s, 1, Min(n, Len(s)))
    ELSE SubSeq(s, 1, Max(0, Len(s) + n))

\* [x for x in s if Keep(x)]

-----------------------------------------------------------------------------
(* Bounds of the model.                                                    *)

\* Spec: the comment source holds at most this many top-level comments
MaxFetched == 3
\* Spec: the comment source answers at most this many page requests
MaxRequests == 2
\* SpecCap: the comment source answers at most this many page requests
MaxRequestsCap == 3
\* random.shuffle is modelled by every permutation up to this length
ShuffleExact == 4

-----------------------------------------------------------------------------
(* The comment source: items of a commentThreads().list response.          *)

Reply(likeCount, textDisplay) ==
    [likeCount |-> likeCount, textDisplay |-> textDisplay]

RawItem(textDisplay, likeCount, replies) ==
    [textDisplay |-> textDisplay, likeCount |-> likeCount, replies |-> replies]

\* reply lists the source may inline under a comment
InlinedReplies ==
    << Reply(IntV(2), StrV("r2")), Reply(IntV(7), StrV("r7")), Reply(Absent, StrV("rx")),
       Reply(IntV(9), StrV("")), Reply(IntV(7), StrV("r7b")), Reply(IntV(1), StrV("r1")),
       Reply(IntV(8), Absent) >>

ItemA == RawItem(StrV("a"), IntV(5), <<>>)
ItemB == RawItem(StrV("b"), IntV(5), InlinedReplies)
ItemC == RawItem(StrV(" "), Absent, <<>>)
ItemD == RawItem(StrV("d"), None, << Reply(IntV(0), StrV("r0")) >>)
ItemE == RawItem(StrV("e"), IntV(10), <<>>)
ItemF == RawItem(StrV("f"), IntV(3), <<>>)

\* Spec: items a page may hold
PoolItems == {ItemA, ItemB, ItemC, ItemD}

\* all sequences over S of length at most n
SeqsUpTo(S, n) == UNION {[1..k -> S] : k \in 0..n}

\* NoToken stands for the absent nextPageToken (None)
NoToken == 0
Tokens == {1, 2}

-----------------------------------------------------------------------------
(* Strings that are inspected character by character.                      *)

PCT_100 == <<"1", "0", "0", "%">>
PCT_50 == <<"5", "0", "%">>
PCT_25 == <<"2", "5", "%">>
PCT_10 == <<"1", "0", "%">>
PCT_0 == <<"0", "%">>
PCT_NEG50 == <<"-", "5", "0", "%">>
PCT_200 == <<"2", "0", "0", "%">>
PCT_100_0 == <<"1", "0", "0", ".", "0", "%">>
PCT_ABC == <<"a", "b", "c">>
PCT_ONLY == <<"%">>

\* choices offered by the selectbox, app.py:377
comments_percentage_options == {PCT_100, PCT_50, PCT_25, PCT_10}

\* every pct_str the model passes to fetch_comments
PctInputs == comments_percentage_options
             \cup {PCT_0, PCT_NEG50, PCT_200, PCT_100_0, PCT_ABC, PCT_ONLY}

Digits == {"0", "1", "2", "3", "4", "5", "6", "7", "8", "9"}
DigitVal(c) ==
    CASE c = "0" -> 0 [] c = "1" -> 1 [] c = "2" -> 2 [] c = "3" -> 3
      [] c = "4" -> 4 [] c = "5" -> 5 [] c = "6" -> 6 [] c = "7" -> 7
      [] c = "8" -> 8 [] c = "9" -> 9

\* str.strip('%')
RECURSIVE StripLeft(_)
StripLeft(s) == IF s # <<>> /\ Head(s) = "%" THEN StripLeft(Tail(s)) ELSE s
RECURSIVE StripRight(_)
StripRight(s) ==
    IF s # <<>> /\ s[Len(s)] = "%" THEN StripRight(SubSeq(s, 1, Len(s) - 1)) ELSE s
StripPct(s) == StripRight(StripLeft(s))

\* digits of s read as a decimal numeral
RECURSIVE Numeral(_)
Numeral(s) ==
    IF s = <<>> THEN 0 ELSE 10 * Numeral(SubSeq(s, 1, Len(s) - 1)) + DigitVal(s[Len(s)])

RECURSIVE Pow10(_)
Pow10(k) == IF k = 0 THEN 1 ELSE 10 * Pow10(k - 1)

\* float(s) for an optionally signed decimal numeral with at most one point;
\* anything else raises ValueError (ok = FALSE).  The value is num / den.
FloatParse(s) ==
    LET neg == s # <<>> /\ Head(s) = "-"
        body == IF s # <<>> /\ Head(s) \in {"-", "+"} THEN Tail(s) ELSE s
        points == {i \in 1..Len(body) : body[i] = "."}
        digits == SelectSeq(body, LAMBDA c : c # ".")
        wellformed == /\ digits # <<>>
                      /\ \A i \in 1..Len(digits) : digits[i] \in Digits
                      /\ Cardinality(points) <= 1
        frac == IF points = {} THEN 0 ELSE Len(body) - (CHOOSE i \in points : TRUE)
    IN  IF ~wellformed THEN [ok |-> FALSE, num |-> 0, den |-> 1]
        ELSE [ok |-> TRUE,
              num |-> IF neg THEN -Numeral(digits) ELSE Numeral(digits),
              den |-> Pow10(frac)]

-----------------------------------------------------------------------------
(* fetch_comments                                                          *)

max_comments_limit == 1000

\* the dict appended to comments_data for one response item
CommentRecord(item) ==
    [text |-> IF item.textDisplay.tag = "absent" THEN "" ELSE item.textDisplay.s,
     likes |-> IF item.likeCount.tag = "absent" THEN IntV(0) ELSE item.likeCount,
     replies |-> item.replies]

\* the loop without its limit test
AppendItemsUnlimited(data, items) ==
    data \o [i \in 1..Len(items) |-> CommentRecord(items[i])]

\* the for loop over response items: append, stop once the limit is reached
AppendItems(data, items) ==
    LET taken == IF items = <<>> THEN 0
                 ELSE Min(Len(items), Max(1, max_comments_limit - Len(data)))
    IN  data \o [i \in 1..taken |-> CommentRecord(items[i])]

Reverse(s) == [i \in 1..Len(s) |-> s[Len(s) + 1 - i]]
Rotate(s) == [i \in 1..Len(s) |-> s[(i % Len(s)) + 1]]

\* the orders random.shuffle may leave the list in
Shuffles(s) ==
    IF Len(s) <= ShuffleExact
    THEN LET n == Len(s)
             bij == {f \in [1..n -> 1..n] : \A i, j \in 1..n : f[i] = f[j] => i = j}
         IN  {[i \in 1..n |-> s[f[i]]] : f \in bij}
    ELSE {s, Reverse(s), Rotate(s)}

\* the count with the division by 100 left out
NumToReturnUnscaled(n, f) == Trunc(n * f.num, f.den)

\* num_to_return = int(len(comments_data) * percentage_to_fetch); the exact
\* quotient equals the double-precision product of the code for every percentage
\* of PctInputs and every length up to max_comments_limit + 1
NumToReturn(n, f) == Trunc(n * f.num, f.den * 100)

\* a percentage step that shuffles before it parses the percentage
SampleOutcomesShuffleFirst(data, pct) ==
    IF pct # PCT_100
    THEN LET f == FloatParse(StripPct(pct))
         IN  {[data |-> p,
               ret |-> IF f.ok THEN SliceTo(p, NumToReturn(Len(data), f)) ELSE p,
               shuffled |-> TRUE] : p \in Shuffles(data)}
    ELSE {[data |-> data, ret |-> data, shuffled |-> FALSE]}

\* the percentage step: the possible (list left in comments_data, value returned,
\* shuffle called) outcomes
SampleOutcomes(data, pct) ==
    IF pct # PCT_100
    THEN LET f == FloatParse(StripPct(pct))
         IN  IF f.ok
             THEN {[data |-> p, ret |-> SliceTo(p, NumToReturn(Len(data), f)), shuffled |-> TRUE]
                   : p \in Shuffles(data)}
             ELSE {[data |-> data, ret |-> data, shuffled |-> FALSE]}
    ELSE {[data |-> data, ret |-> data, shuffled |-> FALSE]}

\* comment_texts_for_gpt, app.py:453-456
IsBlank(t) == t \in {"", " "}
CommentTexts(fetched) ==
    LET kept == SelectSeq(fetched, LAMBDA c : ~IsBlank(c.text))
    IN  [i \in 1..Len(kept) |-> kept[i].text]

\* where the main flow goes once fetch_comments has returned, app.py:449-462
AfterFetch(fetched) ==
    IF fetched = <<>> \/ CommentTexts(fetched) = <<>> THEN "no_comments"
    ELSE "gpt_sentiment_analysis"

\* early returns of fetch_comments: no API key, or no video id in the URL
FetchRejected ==
    /\ pc = "fetch_comments"
    /\ n_requests = 0
    /\ ~YT_API_KEY \/ video_url = "invalid"
    /\ fetched_comments_data' = <<>>
    /\ pc' = AfterFetch(<<>>)
    /\ UNCHANGED <<YT_API_KEY, client, video_url, pct_str, comments_data,
                   next_page_token, n_requests, last_request_token,
                   last_response_token, fetched_all, shuffled, fetch_failed,
                   sentiment_input, api_response, sentiment_gpt_result,
                   summary_from_gpt, top_10_comments, sorted_replies_list>>

\* a loop that leaves only when the token is exhausted
LoopContinuesToTokenEnd(data, token) == token # NoToken

\* neither break of the while loop is taken after a response, app.py:207-211:
\* the collected count is below the limit and the response carries a token
LoopContinues(data, token) == Len(data) < max_comments_limit /\ token # NoToken

\* one iteration of the while loop whose request succeeds; when the loop ends the
\* percentage step runs and fetch_comments returns
FetchPage(items, token) ==
    /\ pc = "fetch_comments"
    /\ YT_API_KEY /\ video_url # "invalid"
    /\ n_requests' = n_requests + 1
    /\ last_request_token' = next_page_token
    /\ last_response_token' = token
    /\ LET data == AppendItems(comments_data, items)
           limit_hit == Len(data) >= max_comments_limit
       IN  IF LoopContinues(data, token)
           THEN /\ comments_data' = data
                /\ next_page_token' = token
                /\ UNCHANGED <<pc, fetched_all, shuffled, fetched_comments_data>>
           ELSE /\ next_page_token' = IF limit_hit THEN next_page_token ELSE token
                /\ fetched_all' = data
                /\ \E o \in SampleOutcomes(data, pct_str) :
                      /\ comments_data' = o.data
                      /\ shuffled' = o.shuffled
                      /\ fetched_comments_data' = o.ret
                      /\ pc' = AfterFetch(o.ret)
    /\ UNCHANGED <<YT_API_KEY, client, video_url, pct_str, fetch_failed,
                   sentiment_input, api_response, sentiment_gpt_result,
                   summary_from_gpt, top_10_comments, sorted_replies_list>>

\* an except branch that returns what was collected so far
ExceptReturnCollected(data) == data

\* what the except branch of fetch_comments returns, app.py:225-227
ExceptReturn(data) == <<>>

\* a page request raises: the except branch returns an empty list
FetchFail ==
    /\ pc = "fetch_comments"
    /\ YT_API_KEY /\ video_url # "invalid"
    /\ n_requests' = n_requests + 1
    /\ last_request_token' = next_page_token
    /\ fetch_failed' = TRUE
    /\ fetched_all' = comments_data
    /\ fetched_comments_data' = ExceptReturn(comments_data)
    /\ pc' = AfterFetch(ExceptReturn(comments_data))
    /\ UNCHANGED <<YT_API_KEY, client, video_url, pct_str, comments_data,
                   next_page_token, last_response_token, shuffled,
                   sentiment_input, api_response, sentiment_gpt_result,
                   summary_from_gpt, top_10_comments, sorted_replies_list>>

-----------------------------------------------------------------------------
(* The text a chat completion returns, as far as the parser inspects it:   *)
(* an optional fence opener, a body, an optional closing fence.  The body  *)
(* is a JSON document written one member per line, or free text lines.     *)

\* a line of free text: which labels it contains (after lower(), with or without
\* quotes) and the digit runs re.findall(r"\d+") finds on it, left to right
Line(positive, neutral, negative, numbers) ==
    [positive |-> positive, neutral |-> neutral, negative |-> negative,
     numbers |-> numbers]

SentimentKeys == <<"positive", "neutral", "negative">>

\* the values a member of a decoded JSON object may have
JsonMemberValues == {IntV(3), IntV(2), IntV(0), IntV(-2), StrV("3"), None}

\* decoded JSON objects over a set of keys
JsonObjects(Keys) == UNION {[K -> JsonMemberValues] : K \in SUBSET Keys}

JsonDoc(value) == [form |-> "json", value |-> value, lines |-> <<>>]
TextDoc(lines) == [form |-> "text", value |-> None, lines |-> lines]

\* decoded JSON documents that are not objects
JsonList == [tag |-> "list", v |-> 0, s |-> ""]
JsonNonObjects == {JsonList, StrV("positive"), IntV(5), None}

Completion(opener, closer, body) ==
    [kind |-> "text", opener |-> opener, closer |-> closer, body |-> body]
\* client.chat.completions.create raises, or the message has no content
CompletionRaises == [kind |-> "raises", opener |-> "none", closer |-> FALSE, body |-> TextDoc(<<>>)]

\* api_response before any completion call
NoCompletion == [kind |-> "not_called", opener |-> "none", closer |-> FALSE, body |-> TextDoc(<<>>)]

Openers == {"none", "json", "plain"}

-----------------------------------------------------------------------------
(* gpt_sentiment_analysis                                                  *)

ERR_NO_CLIENT == "OpenAI client not initialized."
ERR_NO_TEXTS == "no comment texts"
ERR_NO_CLEAN == "no comments left after cleaning"
ERR_STRUCTURE == "Invalid JSON structure or data types from GPT."
ERR_UNPARSABLE == "GPT response not parsable as JSON or text"
ERR_EXCEPTION == "str(e)"

Tally(p, n, g) == [positive |-> IntV(p), neutral |-> IntV(n), negative |-> IntV(g)]
ErrorTally(msg) ==
    [positive |-> IntV(0), neutral |-> IntV(0), negative |-> IntV(0), error |-> StrV(msg)]

IsObject(value) == DOMAIN value \notin {{"tag", "v", "s"}}

\* the digit runs in the rendering of a member value
NumbersIn(val) ==
    CASE val.tag = "int" -> << (IF val.v < 0 THEN -val.v ELSE val.v) >>
      [] val.tag = "str" /\ val.s = "3" -> << 3 >>
      [] OTHER -> << >>

\* the lines of the text left in api_response_text after the fences were cut
ResponseLines(resp) ==
    LET doc == resp.body
        keys == SelectSeq(<<"positive", "neutral", "negative", "total">>,
                          LAMBDA k : IsObject(doc.value) /\ k \in DOMAIN doc.value)
        members == [i \in 1..Len(keys) |->
                       Line(keys[i] = "positive", keys[i] = "neutral",
                            keys[i] = "negative", NumbersIn(doc.value[keys[i]]))]
        body == IF doc.form = "text" THEN doc.lines
                ELSE IF IsObject(doc.value)
                     THEN <<Line(FALSE, FALSE, FALSE, <<>>)>> \o members
                          \o <<Line(FALSE, FALSE, FALSE, <<>>)>>
                     ELSE <<Line(FALSE, FALSE, FALSE, NumbersIn(doc.value))>>
    IN  IF resp.opener = "plain" THEN <<Line(FALSE, FALSE, FALSE, <<>>)>> \o body ELSE body

\* json.loads succeeds on what is left after the fences were cut: a ```json opener
\* and a closing ``` are removed, any other opener stays in the text
Decodes(resp) == resp.body.form = "json" /\ resp.opener # "plain"

\* all(k in sentiment_results and isinstance(sentiment_results[k], int) for k in ...);
\* "raises" when the membership test or the subscript raises TypeError
ShapeCheck(value) ==
    IF IsObject(value)
    THEN IF \A i \in 1..3 : SentimentKeys[i] \in DOMAIN value /\ IsInt(value[SentimentKeys[i]])
         THEN "ok" ELSE "invalid"
    ELSE IF value.tag = "list" THEN "invalid"
    ELSE IF value.tag = "str"
         THEN (IF value.s = "positive" THEN "raises" ELSE "invalid")
    ELSE "raises"

\* the except json.JSONDecodeError branch: scan the lines for labels
FallbackScan(lines) ==
    LET step(acc, ln) ==
            IF ln.positive
            THEN (IF ln.numbers # <<>> THEN [acc EXCEPT !.positive = ln.numbers[1]] ELSE acc)
            ELSE IF ln.neutral
            THEN (IF ln.numbers # <<>> THEN [acc EXCEPT !.neutral = ln.numbers[1]] ELSE acc)
            ELSE IF ln.negative
            THEN (IF ln.numbers # <<>> THEN [acc EXCEPT !.negative = ln.numbers[1]] ELSE acc)
            ELSE acc
        scan[k \in 0..Len(lines)] ==
            IF k = 0 THEN [positive |-> 0, neutral |-> 0, negative |-> 0]
            ELSE step(scan[k - 1], lines[k])
    IN  scan[Len(lines)]

\* a fallback that reports whatever it counted
FallbackResultSilent(lines) ==
    LET f == FallbackScan(lines)
    IN  Tally(f.positive, f.neutral, f.negative)

FallbackResult(lines) ==
    LET f == FallbackScan(lines)
    IN  IF f.positive + f.neutral + f.negative > 0
        THEN Tally(f.positive, f.neutral, f.negative)
        ELSE ErrorTally(ERR_UNPARSABLE)

\* a parser that sends a shape failure to the line fallback
ParseCompletionShapeFallsBack(resp) ==
    IF resp.kind = "raises" THEN ErrorTally(ERR_EXCEPTION)
    ELSE IF Decodes(resp) /\ ShapeCheck(resp.body.value) = "ok" THEN resp.body.value
    ELSE FallbackResult(ResponseLines(resp))

\* the try block around the completion call, app.py:261-310
ParseCompletion(resp) ==
    IF resp.kind = "raises" THEN ErrorTally(ERR_EXCEPTION)
    ELSE IF Decodes(resp)
         THEN CASE ShapeCheck(resp.body.value) = "ok" -> resp.body.value
                [] ShapeCheck(resp.body.value) = "invalid" -> ErrorTally(ERR_STRUCTURE)
                [] OTHER -> ErrorTally(ERR_EXCEPTION)
         ELSE FallbackResult(ResponseLines(resp))

\* whether the call reaches client.chat.completions.create
CallsModel(has_client, comments_texts_list) ==
    has_client /\ comments_texts_list # <<>>
    /\ SelectSeq(comments_texts_list, LAMBDA c : ~IsBlank(c)) # <<>>

gpt_sentiment_analysis(has_client, comments_texts_list, resp) ==
    IF ~has_client THEN ErrorTally(ERR_NO_CLIENT)
    ELSE IF comments_texts_list = <<>> THEN ErrorTally(ERR_NO_TEXTS)
    ELSE IF SelectSeq(comments_texts_list, LAMBDA c : ~IsBlank(c)) = <<>>
         THEN ErrorTally(ERR_NO_CLEAN)
    ELSE ParseCompletion(resp)

HasError(result) == "error" \in DOMAIN result

\* a flow that stops when the sentiment result carries an error
AfterSentimentStopOnError(result) ==
    IF HasError(result) THEN "no_comments" ELSE "gpt_comment_summary"

\* where the main flow goes after the sentiment display, app.py:465-489
AfterSentiment(result) == "gpt_comment_summary"

\* the call of app.py:462; the display of app.py:465-487 changes no state
GptSentiment(Responses) ==
    /\ pc = "gpt_sentiment_analysis"
    /\ sentiment_input' = CommentTexts(fetched_comments_data)
    /\ \/ /\ ~CallsModel(client, CommentTexts(fetched_comments_data))
          /\ sentiment_gpt_result' =
                 gpt_sentiment_analysis(client, CommentTexts(fetched_comments_data), NoCompletion)
          /\ UNCHANGED api_response
       \/ /\ CallsModel(client, CommentTexts(fetched_comments_data))
          /\ \E resp \in Responses :
                /\ api_response' = resp
                /\ sentiment_gpt_result' =
                       gpt_sentiment_analysis(client, CommentTexts(fetched_comments_data), resp)
    /\ pc' = AfterSentiment(sentiment_gpt_result')
    /\ UNCHANGED <<YT_API_KEY, client, video_url, pct_str, comments_data,
                   next_page_token, n_requests, last_request_token,
                   last_response_token, fetched_all, shuffled, fetch_failed,
                   fetched_comments_data, summary_from_gpt, top_10_comments,
                   sorted_replies_list>>

-----------------------------------------------------------------------------
(* Ranking of the top comments and of their replies, app.py:494-518        *)

TopCommentsShown == 10
TopRepliesShown == 3

\* sorted(s, key=..., reverse=True) with keys[i] the key of s[i]:
\* descending, equal keys keep their order
SortedDesc(s, keys) ==
    LET insert(t, x) ==
            LET p == Cardinality({i \in 1..Len(t) : keys[t[i]] >= keys[x]})
            IN  SubSeq(t, 1, p) \o <<x>> \o SubSeq(t, p + 1, Len(t))
        order[k \in 0..Len(s)] == IF k = 0 THEN <<>> ELSE insert(order[k - 1], k)
    IN  [i \in 1..Len(s) |-> s[order[Len(s)][i]]]

\* key=lambda x: x["likes"], app.py:500
LikesOf(s) == [i \in 1..Len(s) |-> s[i].likes.v]

\* key=lambda x: x["likeCount"], app.py:516
LikeCountOf(s) == [i \in 1..Len(s) |-> s[i].likeCount.v]

comments_with_likes(fetched) == SelectSeq(fetched, LAMBDA c : IsInt(c.likes))

\* a ranking whose sort does not keep equal like-counts in order
TopCommentsUnstable(fetched) ==
    LET rev == Reverse(comments_with_likes(fetched))
    IN  SliceTo(SortedDesc(rev, LikesOf(rev)), TopCommentsShown)

TopComments(fetched) ==
    LET liked == comments_with_likes(fetched)
    IN  SliceTo(SortedDesc(liked, LikesOf(liked)), TopCommentsShown)

\* a filter that forgets the text test
ValidReplyAnyText(r) == IsInt(r.likeCount)

\* r has an integer likeCount and a truthy textDisplay
ValidReply(r) == IsInt(r.likeCount) /\ r.textDisplay.tag = "str" /\ r.textDisplay.s # ""

valid_replies_list(replies_list) == SelectSeq(replies_list, ValidReply)

TopReplies(replies_list) ==
    LET valid == valid_replies_list(replies_list)
    IN  SliceTo(SortedDesc(valid, LikeCountOf(valid)), TopRepliesShown)

\* the replies shown under each top comment, in display order
RepliesShown(top) == [i \in 1..Len(top) |-> TopReplies(top[i].replies)]

-----------------------------------------------------------------------------
(* gpt_comment_summary and the rest of the main flow, app.py:489-525       *)

SummaryOutcomes == {"summary text", "GPT error"}

gpt_comment_summary(has_client, comments_texts_list, outcome) ==
    IF ~has_client THEN "client not initialized"
    ELSE IF comments_texts_list = <<>> THEN "no comments"
    ELSE IF SelectSeq(comments_texts_list, LAMBDA c : ~IsBlank(c)) = <<>>
         THEN "no comments after cleaning"
    ELSE outcome

\* a ranking fed with everything that was fetched
RankingInputFull(returned, collected) == collected

\* the list the ranking reads, app.py:495: the value fetch_comments returned
RankingInput(returned, collected) == returned

GptSummaryAndRanking ==
    /\ pc = "gpt_comment_summary"
    /\ \E outcome \in (IF client THEN SummaryOutcomes ELSE {"unused"}) :
          summary_from_gpt' =
              StrV(gpt_comment_summary(client, CommentTexts(fetched_comments_data), outcome))
    /\ top_10_comments' = TopComments(RankingInput(fetched_comments_data, fetched_all))
    /\ sorted_replies_list' =
           RepliesShown(TopComments(RankingInput(fetched_comments_data, fetched_all)))
    /\ pc' = "done"
    /\ UNCHANGED <<YT_API_KEY, client, video_url, pct_str, comments_data,
                   next_page_token, n_requests, last_request_token,
                   last_response_token, fetched_all, shuffled, fetch_failed,
                   fetched_comments_data, sentiment_input, api_response,
                   sentiment_gpt_result>>

-----------------------------------------------------------------------------
(* Specifications.                                                         *)

InitWith(Pcts) ==
    /\ YT_API_KEY \in BOOLEAN
    /\ client \in BOOLEAN
    /\ video_url \in {"watch", "invalid"}
    /\ pct_str \in Pcts
    /\ pc = "fetch_comments"
    /\ comments_data = <<>>
    /\ next_page_token = NoToken
    /\ n_requests = 0
    /\ last_request_token = -1
    /\ last_response_token = -1
    /\ fetched_all = <<>>
    /\ shuffled = FALSE
    /\ fetch_failed = FALSE
    /\ fetched_comments_data = <<>>
    /\ sentiment_input = <<>>
    /\ api_response = NoCompletion
    /\ sentiment_gpt_result = NotYet
    /\ summary_from_gpt = NotYet
    /\ top_10_comments = <<>>
    /\ sorted_replies_list = <<>>

Init == InitWith(PctInputs \ {PCT_10, PCT_ONLY})

\* a page of the bounded comment source of Spec
FetchSmallPage ==
    /\ pc = "fetch_comments"
    /\ \E items \in SeqsUpTo(PoolItems, MaxFetched - Len(comments_data)) :
          \E token \in (IF n_requests + 1 < MaxRequests THEN {1} ELSE {}) \cup {NoToken} :
              FetchPage(items, token)

\* completions the model may return in Spec
PipelineResponses ==
    { CompletionRaises,
      Completion("json", TRUE, JsonDoc(Tally(3, 0, 3))),
      Completion("none", FALSE, JsonDoc([positive |-> IntV(3), neutral |-> IntV(0)])),
      Completion("none", FALSE, TextDoc(<<Line(TRUE, FALSE, FALSE, <<4>>)>>)),
      Completion("none", FALSE, TextDoc(<<Line(FALSE, FALSE, FALSE, <<>>)>>)) }

Next ==
    \/ FetchRejected
    \/ FetchSmallPage
    \/ FetchFail
    \/ GptSentiment(PipelineResponses)
    \/ GptSummaryAndRanking

Spec == Init /\ [][Next]_vars

-----------------------------------------------------------------------------
(* SpecCap: fetch_comments alone, against a source with pages large enough *)
(* to reach max_comments_limit.                                            *)

CapPage(n) == [i \in 1..n |-> IF i % 2 = 1 THEN ItemA ELSE ItemE]

CapPageSizes == {0, 1, max_comments_limit \div 2, max_comments_limit + 1}

FetchCapPage ==
    /\ pc = "fetch_comments"
    /\ \E n \in CapPageSizes :
          \E token \in (IF n_requests + 1 < MaxRequestsCap THEN Tokens ELSE {}) \cup {NoToken} :
              FetchPage(CapPage(n), token)

NextCap ==
    \/ FetchRejected
    \/ FetchCapPage
    \/ FetchFail

SpecCap == InitWith(PctInputs) /\ [][NextCap]_vars

-----------------------------------------------------------------------------
(* SpecRank: the pipeline over comment lists and reply lists chosen for    *)
(* the ranking: ties, missing like-counts, more entries than are shown.    *)

\* a comment may carry at most this many inlined replies
MaxReplies == 4
\* every list of pool comments up to this length is fetched
MaxRankLen == 3

RankPool == {ItemA, ItemB, ItemD, ItemE, ItemF}

\* like-counts [5, 5, 3, None, 10]
ExampleList == <<ItemA, ItemB, ItemF, ItemD, ItemE>>

LongNames == <<"c1", "c2", "c3", "c4", "c5", "c6", "c7", "c8", "c9", "c10", "c11", "c12">>
LongLikes == <<4, 7, 4, 9, 4, 7, 1, 4, 9, 4, 7, 4>>
\* twelve comments with likes, more than the ranking shows
LongList == [i \in 1..12 |-> RawItem(StrV(LongNames[i]), IntV(LongLikes[i]), <<>>)]

ReplyPool ==
    { Reply(IntV(7), StrV("r7")), Reply(IntV(7), StrV("r7b")), Reply(IntV(3), StrV("r3")),
      Reply(Absent, StrV("rx")), Reply(IntV(9), StrV("")), Reply(IntV(8), Absent) }

RankPages ==
    SeqsUpTo(RankPool, MaxRankLen)
    \cup {ExampleList, LongList}
    \cup {<<RawItem(StrV("a"), IntV(5), rs)>> : rs \in SeqsUpTo(ReplyPool, MaxReplies)}

RankPcts == {PCT_100, PCT_50, PCT_200}

RankResponses == {Completion("json", TRUE, JsonDoc(Tally(3, 0, 3)))}

FetchRankPage ==
    /\ pc = "fetch_comments"
    /\ \E items \in RankPages : FetchPage(items, NoToken)

NextRank ==
    \/ FetchRejected
    \/ FetchRankPage
    \/ FetchFail
    \/ GptSentiment(RankResponses)
    \/ GptSummaryAndRanking

SpecRank == InitWith(RankPcts) /\ [][NextRank]_vars

-----------------------------------------------------------------------------
(* SpecParse: the pipeline over one fetched comment and every completion   *)
(* text of the bounded response space.                                     *)

\* a free-text completion has at most this many lines
MaxLines == 2

LinePool ==
    {Line(p, n, g, nums) : p \in BOOLEAN, n \in BOOLEAN, g \in BOOLEAN,
                           nums \in {<<>>, <<4>>, <<0, 7>>}}

SentimentObjects == JsonObjects({"positive", "neutral", "negative"})

JsonBodies ==
    {JsonDoc(v) : v \in SentimentObjects \cup {o @@ ("total" :> IntV(6)) : o \in SentimentObjects}
                        \cup JsonNonObjects}

TextBodies == {TextDoc(l) : l \in SeqsUpTo(LinePool, MaxLines)}

AllResponses ==
    {CompletionRaises}
    \cup {Completion(o, c, b) : o \in Openers, c \in BOOLEAN, b \in JsonBodies \cup TextBodies}

FetchParsePage ==
    /\ pc = "fetch_comments"
    /\ \E items \in SeqsUpTo({ItemA}, 1) : FetchPage(items, NoToken)

NextParse ==
    \/ FetchRejected
    \/ FetchParsePage
    \/ FetchFail
    \/ GptSentiment(AllResponses)
    \/ GptSummaryAndRanking

SpecParse == InitWith({PCT_100}) /\ [][NextParse]_vars

-----------------------------------------------------------------------------
(* Properties of the pipeline, checked under Spec.                         *)

\* fetch_comments has returned after at least one page request that succeeded
\* or failed
FetchReturned == pc # "fetch_comments" /\ n_requests > 0

\* the percentage pct_str denotes, when float() accepts it
Pct == FloatParse(StripPct(pct_str))

\* number of positions of s holding x
Count(s, x) == Cardinality({i \in 1..Len(s) : s[i] = x})

\* C2 (as claimed): with 3 fetched comments and "50%", the sentiment call gets a
\* 1-element list while the ranking is the ranking of all 3 fetched comments.
C2_RankingOnAllFetched ==
    (pc = "done" /\ pct_str = PCT_50 /\ Len(fetched_all) = 3)
        => /\ Len(sentiment_input) = 1
           /\ top_10_comments = TopComments(fetched_all)

\* C2 (amended): with 3 fetched comments and "50%", fetch_comments returns a
\* 1-element sample, and both the sentiment call and the ranking work on that
\* sample: the ranking holds no comment outside it.
C2_RankingOnSample ==
    (pc = "done" /\ pct_str = PCT_50 /\ Len(fetched_all) = 3)
        => /\ Len(fetched_comments_data) = 1
           /\ sentiment_input = <<fetched_comments_data[1].text>>
           /\ Len(top_10_comments) <= 1
           /\ \A i \in 1..Len(top_10_comments) :
                  top_10_comments[i] = fetched_comments_data[1]
           /\ (IsInt(fetched_comments_data[1].likes) => Len(top_10_comments) = 1)

\* C2 witness: a run over 3 distinct fetched comments, two of them with likes,
\* sampled at "50%", that ranked its single sampled comment
C2_Witness ==
    /\ pc = "done" /\ pct_str = PCT_50 /\ Len(fetched_all) = 3
    /\ Len(TopComments(fetched_all)) >= 2
    /\ Len(sentiment_input) = 1
    /\ Len(top_10_comments) = 1

\* C3: for a percentage in (0, 100], the returned sample has exactly
\* floor(len * fraction) elements, all drawn from the fetched collection; for
\* "100%" the fetched list is returned as it is and no shuffle is performed.
C3_SampleSize ==
    (FetchReturned /\ ~fetch_failed) =>
        /\ (Pct.ok /\ Pct.num > 0 /\ Pct.num <= 100 * Pct.den) =>
              /\ Len(fetched_comments_data) = (Len(fetched_all) * Pct.num) \div (100 * Pct.den)
              /\ \A i \in 1..Len(fetched_comments_data) :
                    Count(fetched_comments_data, fetched_comments_data[i])
                        <= Count(fetched_all, fetched_comments_data[i])
        /\ pct_str = PCT_100 =>
              /\ fetched_comments_data = fetched_all
              /\ comments_data = fetched_all
              /\ ~shuffled

\* C3 witness: 3 comments fetched, "50%" requested, the shuffle changed the
\* order and 1 comment was returned
C3_Witness ==
    /\ FetchReturned /\ ~fetch_failed /\ pct_str = PCT_50
    /\ Len(fetched_all) = 3 /\ shuffled /\ comments_data # fetched_all
    /\ Len(fetched_comments_data) = 1

\* C4 (as claimed): when a page request fails after earlier pages produced
\* comments, the comments collected before the failure are returned.
C4_PartialProgressKept ==
    (fetch_failed /\ Len(comments_data) > 0) => fetched_comments_data = comments_data

\* C4 (amended): when a page request fails, fetch_comments returns the empty
\* list, also when earlier pages produced comments, and the flow ends without
\* any analysis.
C4_FailureReturnsEmpty ==
    fetch_failed => /\ fetched_comments_data = <<>>
                    /\ pc = "no_comments"
                    /\ sentiment_gpt_result = NotYet
                    /\ top_10_comments = <<>>

\* C4 witness: the second page request failed after the first page gave comments
C4_Witness == fetch_failed /\ n_requests = 2 /\ Len(comments_data) > 0

\* C9: a failed sentiment call comes back as a tally carrying an error, and a
\* run whose sentiment result carries an error still calls the summary and
\* still produces the ranking.
C9_SentimentFailureIsLocal ==
    /\ (api_response.kind = "raises" => sentiment_gpt_result = ErrorTally(ERR_EXCEPTION))
    /\ (sentiment_gpt_result # NotYet /\ HasError(sentiment_gpt_result)) =>
          /\ pc \in {"gpt_comment_summary", "done"}
          /\ pc = "done" =>
                /\ summary_from_gpt # NotYet
                /\ top_10_comments = TopComments(fetched_comments_data)
                /\ Len(sorted_replies_list) = Len(top_10_comments)

\* C9 witness: the completion call raised, and the run ended with a summary and
\* a non-empty ranking
C9_Witness ==
    /\ pc = "done" /\ api_response.kind = "raises"
    /\ HasError(sentiment_gpt_result)
    /\ summary_from_gpt = StrV("summary text")
    /\ Len(top_10_comments) > 0

\* C10 (as claimed): a percentage that is zero or negative yields an empty list.
C10_NonPositiveIsEmpty ==
    (FetchReturned /\ ~fetch_failed /\ Pct.ok /\ Pct.num <= 0)
        => fetched_comments_data = <<>>

-----------------------------------------------------------------------------
(* Properties of fetch_comments at the limit, checked under SpecCap.       *)

\* C1: whatever pages the source answers with and whatever percentage was
\* requested, fetch_comments never holds or returns more than 1000 comments.
C1_HardCap ==
    /\ Len(comments_data) <= 1000
    /\ Len(fetched_comments_data) <= 1000

\* C1 witness: "100%" was requested, the third page went past the limit and
\* exactly 1000 comments were returned
C1_Witness ==
    /\ pct_str = PCT_100 /\ n_requests = 3 /\ pc # "fetch_comments"
    /\ Len(fetched_comments_data) = 1000

-----------------------------------------------------------------------------
(* Properties of the sentiment parser, checked under SpecParse.            *)

\* gpt_sentiment_analysis has returned from a completion call
Parsed == api_response.kind # "not_called"

ZeroCounts(result) ==
    /\ {"positive", "neutral", "negative"} \subseteq DOMAIN result
    /\ result["positive"] = IntV(0)
    /\ result["neutral"] = IntV(0)
    /\ result["negative"] = IntV(0)

\* the completion decoded as JSON and failed the shape validation
ShapeFailure ==
    /\ Parsed /\ api_response.kind = "text" /\ Decodes(api_response)
    /\ ShapeCheck(api_response.body.value) # "ok"

\* C5 (as claimed): a completion that decodes as JSON and fails the shape
\* validation is handled like a decode failure: the result is what the line
\* fallback extracts from its labelled lines.
C5_ShapeFailureFallsBack ==
    ShapeFailure => sentiment_gpt_result = FallbackResult(ResponseLines(api_response))

\* C5 (amended): a completion that decodes as JSON and fails the shape
\* validation is not handed to the line fallback: the result is the zero tally
\* with an error marker, "invalid structure" for an object or a list, whatever
\* counts its lines carry.
C5_ShapeFailureIsError ==
    ShapeFailure =>
        /\ ZeroCounts(sentiment_gpt_result)
        /\ HasError(sentiment_gpt_result)
        /\ IsObject(api_response.body.value) =>
               sentiment_gpt_result = ErrorTally(ERR_STRUCTURE)

\* C5 witness: {"positive": 3, "neutral": 2} came back, whose lines carry the
\* counts 3 and 2, and the result is the zero tally with the structure error
C5_Witness ==
    /\ api_response =
           Completion("none", FALSE, JsonDoc([positive |-> IntV(3), neutral |-> IntV(2)]))
    /\ FallbackResult(ResponseLines(api_response)) = Tally(3, 2, 0)
    /\ sentiment_gpt_result = ErrorTally(ERR_STRUCTURE)

\* no line of the completion text carries a sentiment label
NoLabelAnywhere ==
    \A i \in 1..Len(ResponseLines(api_response)) :
        LET ln == ResponseLines(api_response)[i]
        IN  ~ln.positive /\ ~ln.neutral /\ ~ln.negative

\* C6: a completion with no decodable JSON and no sentiment label on any line
\* yields positive = neutral = negative = 0 together with an error marker.
C6_UnparsableHasError ==
    (Parsed /\ ~Decodes(api_response) /\ NoLabelAnywhere) =>
        /\ ZeroCounts(sentiment_gpt_result)
        /\ HasError(sentiment_gpt_result)
        /\ DOMAIN sentiment_gpt_result = {"positive", "neutral", "negative", "error"}

\* C6 witness: two lines of text with numbers and no label, reported unparsable
C6_Witness ==
    /\ api_response = Completion("none", FALSE,
           TextDoc(<<Line(FALSE, FALSE, FALSE, <<4>>), Line(FALSE, FALSE, FALSE, <<0, 7>>)>>))
    /\ sentiment_gpt_result = ErrorTally(ERR_UNPARSABLE)

-----------------------------------------------------------------------------
(* Properties of the ranking, checked under SpecRank.                      *)

\* the comments of s with integer like-count v, in the order of s
WithLikes(s, v) == SelectSeq(s, LAMBDA c : IsInt(c.likes) /\ c.likes.v = v)

LikeValues(s) == {s[i].likes.v : i \in {j \in 1..Len(s) : IsInt(s[j].likes)}}

\* top is the k best of src: integer like-counts only, descending, equal
\* like-counts in the order they have in src, nothing better left out
IsStableTopK(top, src, k) ==
    /\ Len(top) = Min(k, Len(comments_with_likes(src)))
    /\ \A i \in 1..Len(top) : IsInt(top[i].likes)
    /\ \A i \in 1..Len(top) : \A j \in i..Len(top) : top[i].likes.v >= top[j].likes.v
    /\ \A v \in LikeValues(src) \cup LikeValues(top) :
         /\ Len(WithLikes(top, v)) <= Len(WithLikes(src, v))
         /\ WithLikes(top, v) = SubSeq(WithLikes(src, v), 1, Len(WithLikes(top, v)))
         /\ Len(WithLikes(top, v)) < Len(WithLikes(src, v)) =>
               \A i \in 1..Len(top) : top[i].likes.v >= v

\* a can be obtained from b by deleting elements
RECURSIVE IsSubsequence(_, _)
IsSubsequence(a, b) ==
    IF a = <<>> THEN TRUE
    ELSE IF b = <<>> THEN FALSE
    ELSE IF Head(a) = Head(b) THEN IsSubsequence(Tail(a), Tail(b))
    ELSE IsSubsequence(a, Tail(b))

\* C7 (as claimed): the top list holds comments with an integer like-count, by
\* like-count descending, and comments with equal like-counts stand in their
\* original fetch order.
C7_TiesInFetchOrder ==
    pc = "done" =>
        /\ \A i \in 1..Len(top_10_comments) : IsInt(top_10_comments[i].likes)
        /\ \A i \in 1..Len(top_10_comments) : \A j \in i..Len(top_10_comments) :
              top_10_comments[i].likes.v >= top_10_comments[j].likes.v
        /\ \A v \in LikeValues(top_10_comments) :
              IsSubsequence(WithLikes(top_10_comments, v), WithLikes(fetched_all, v))

\* C7 (amended): the top list is the comments of the list fetch_comments
\* returned that have an integer like-count, by like-count descending, ties in
\* the order of that returned list (the fetch order for "100%", the shuffled
\* order otherwise), cut to 10; for like-counts [5, 5, 3, None, 10] fetched
\* with "100%" it is [10, 5, 5, 3] with the two 5s in fetch order.
C7_TiesInReturnedOrder ==
    pc = "done" =>
        /\ IsStableTopK(top_10_comments, fetched_comments_data, 10)
        /\ (pct_str = PCT_100 /\ fetched_all = [i \in 1..5 |-> CommentRecord(ExampleList[i])]) =>
               top_10_comments = <<CommentRecord(ItemE), CommentRecord(ItemA),
                                   CommentRecord(ItemB), CommentRecord(ItemF)>>

\* C7 witness: twelve comments with likes were returned after a shuffle that
\* changed their order, and ten of them are shown
C7_Witness ==
    /\ pc = "done" /\ shuffled /\ comments_data # fetched_all
    /\ Len(fetched_comments_data) = 12
    /\ Len(top_10_comments) = 10
    /\ top_10_comments[10].likes.v = 4

\* C8: the replies shown under a top comment have an integer like-count and a
\* non-empty text, come from that comment's replies, are in like-count
\* descending order and are at most 3, the 3 best when more are valid.
C8_RepliesShown ==
    pc = "done" =>
        /\ Len(sorted_replies_list) = Len(top_10_comments)
        /\ \A i \in 1..Len(top_10_comments) :
             LET shown == sorted_replies_list[i]
                 all == top_10_comments[i].replies
                 good == {j \in 1..Len(all) : /\ all[j].likeCount.tag = "int"
                                              /\ all[j].textDisplay.tag = "str"
                                              /\ all[j].textDisplay.s # ""}
             IN  /\ Len(shown) <= 3
                 /\ Len(shown) = Min(3, Cardinality(good))
                 /\ \A k \in 1..Len(shown) : \E j \in good : all[j] = shown[k]
                 /\ \A k \in 1..Len(shown) : \A m \in k..Len(shown) :
                        shown[k].likeCount.v >= shown[m].likeCount.v
                 /\ \A j \in good :
                        (\A k \in 1..Len(shown) : shown[k] # all[j]) =>
                            \A k \in 1..Len(shown) : shown[k].likeCount.v >= all[j].likeCount.v

\* C8 witness: a top comment with four valid replies and an invalid one shows
\* three replies
C8_Witness ==
    /\ pc = "done" /\ Len(top_10_comments) = 1
    /\ Len(top_10_comments[1].replies) = 4
    /\ Len(valid_replies_list(top_10_comments[1].replies)) = 3
    /\ Len(sorted_replies_list[1]) = 3
    /\ top_10_comments[1].replies[1] = Reply(IntV(9), StrV(""))

-----------------------------------------------------------------------------
(* Malformed percentage strings                                            *)

\* pct_str is not "100%" and float(pct_str.strip('%')) raises ValueError
MalformedPct == pct_str # PCT_100 /\ ~Pct.ok

\* C11: when the percentage string cannot be parsed as a number, fetch_comments
\* returns every fetched comment, in fetch order, and random.shuffle is not
\* applied to the collected list.
C11_MalformedReturnsAll ==
    (FetchReturned /\ ~fetch_failed /\ MalformedPct)
        => /\ fetched_comments_data = fetched_all
           /\ comments_data = fetched_all
           /\ ~shuffled

\* a malformed percentage met a fetched list whose order is observable
C11_Witness ==
    /\ FetchReturned /\ ~fetch_failed /\ MalformedPct
    /\ Len(fetched_all) >= 2
    /\ fetched_all[1] # fetched_all[2]
    /\ fetched_comments_data = fetched_all

-----------------------------------------------------------------------------
(* Shape of the value gpt_sentiment_analysis returns                       *)

\* result has exactly the three count keys, each a non-negative integer, and at
\* most an additional error marker
IsSentimentTally(result) ==
    /\ {"positive", "neutral", "negative"} \subseteq DOMAIN result
    /\ DOMAIN result \subseteq {"positive", "neutral", "negative", "error"}
    /\ \A k \in {"positive", "neutral", "negative"} :
           IsInt(result[k]) /\ result[k].v >= 0

\* C12: every value gpt_sentiment_analysis returns, on every path, is a mapping
\* whose count keys are exactly positive, neutral and negative, each a
\* non-negative integer, with at most an additional error marker.
C12_TallyShape ==
    sentiment_gpt_result # NotYet => IsSentimentTally(sentiment_gpt_result)

-----------------------------------------------------------------------------
(* Pagination of fetch_comments, checked under SpecCap.                    *)

\* this step issues a page request
IssuesRequest == n_requests' = n_requests + 1

\* the response of the latest request ended the paging: the collected count
\* reached the limit or the response carried no continuation token
ResponseEndsPaging(collected, token) ==
    Len(collected) >= max_comments_limit \/ token = NoToken

\* C13: pagination stops at the first response after which the collected count
\* has reached 1000 or the response carries no continuation token.  A request is
\* issued only while no earlier response ended the paging (and no request
\* failed); it carries the token of the immediately preceding response, none for
\* the first; and a successful response ends the loop exactly when it ends the
\* paging.
C13_Pagination ==
    [][IssuesRequest =>
         /\ n_requests > 0 =>
               /\ ~fetch_failed
               /\ ~ResponseEndsPaging(comments_data, last_response_token)
         /\ last_request_token' =
               (IF n_requests = 0 THEN NoToken ELSE last_response_token)
         /\ ~fetch_failed' =>
               ((pc' # "fetch_comments")
                  <=> ResponseEndsPaging(comments_data', last_response_token'))
      ]_vars

\* the second request carried a token and its response, which also carried a
\* token, brought the collected count to the limit: the loop ended there
C13_Witness ==
    /\ n_requests = 2 /\ ~fetch_failed /\ pc # "fetch_comments"
    /\ last_request_token # NoToken
    /\ last_response_token # NoToken
    /\ Len(fetched_all) >= max_comments_limit

-----------------------------------------------------------------------------
(* Comments whose like-count is absent in the source response              *)

\* texts of the source items of Spec that carry no likeCount; the items of
\* PoolItems have pairwise different texts, so a text names its item
AbsentLikeTexts ==
    {item.textDisplay.s : item \in {x \in PoolItems : x.likeCount = Absent}}

\* C14: a comment whose like-count is absent in the source response is excluded
\* from the ranked top list entirely; it is never ranked as if it had a
\* like-count of zero.
C14_AbsentLikesExcluded ==
    \A i \in 1..Len(top_10_comments) : top_10_comments[i].text \notin AbsentLikeTexts

====
